---- MODULE Spec2Model ----
(***************************************************************************)
(* Model of the Instagram DM campaign of restaurant-automate-dms:          *)
(*   - the SendDM event handler   (src/steps/send-dm.step.ts)              *)
(*   - the send-dm CLI script     (src/steps/src/send-dm.ts)               *)
(* together with the two files they share, output/restaurants.json and     *)
(* output/messaged_restaurants.json, and the wall clock they read.         *)
(*                                                                         *)
(* Scaling.  The code hard-codes the limits 25 (hourly) and 100 (daily).   *)
(* The model carries the two limits in the variable `limits`, fixed by     *)
(* Init to one of the small pairs of Limits, so that quota exhaustion      *)
(* happens with a handful of restaurants.  The day is HoursPerDay hours    *)
(* long and the clock counts TicksPerHour ticks per hour.                  *)
(***************************************************************************)
EXTENDS Integers, Sequences, FiniteSets, TLC

(* ------------------------------ bounds --------------------------------- *)

\* Hours in a (scaled) day.
HoursPerDay == 2

\* Clock ticks per hour: below one hour so that a UTC offset that is not a
\* whole number of hours (UTC+5:30, UTC+5:45, ...) can be told apart.
TicksPerHour == 2

\* Last clock tick of the model.
MaxTime == 4

\* Invocations that may be in flight at once in the overlapping specification.
Procs == {1, 2}

\* The machine's UTC offset modulo one hour, in ticks: 0 for a whole-hour
\* zone, 1 for a zone such as UTC+5:30.
TzOffsets == {0, 1}

\* The limit pairs the model is checked with (program values: 25 and 100).
Limits == {[hourly |-> 2, daily |-> 3], [hourly |-> 2, daily |-> 10]}

NULL == "null"

\* socialMedia.instagram absent, null or "".
NoLink == [host |-> "", user |-> ""]

(* ---------------------------- restaurants.json ------------------------- *)

\* A stored Instagram link.  `user` is the first path segment of the URL,
\* "" when the URL has none (a link to instagram.com itself).
ProfileUrl(u) == [host |-> "instagram.com", user |-> u]
RootUrl == [host |-> "instagram.com", user |-> ""]

Lead(n, url) == [name |-> n, instagram |-> url]

\* restaurants.json: location key -> the leads in Object.entries order.
\* B has no socialMedia.instagram; E's link holds no username; F, in another
\* location, has the link of the account that A has.
RestaurantData ==
  [l \in {"l1", "l2"} |->
     IF l = "l1"
       THEN << Lead("A", ProfileUrl("u1")), Lead("B", NoLink),
               Lead("C", ProfileUrl("u2")), Lead("D", ProfileUrl("u3")) >>
       ELSE << Lead("E", RootUrl), Lead("F", ProfileUrl("u1")) >>]

\* Object.keys(restaurantData) order of the CLI's outer loop.
LocationOrder == << "l1", "l2" >>

Locations == {"l1", "l2"}

\* input.location values an invocation is started with: a stored location, one
\* spelled in upper case, and one restaurants.json does not hold.
LocationInputs == {"l1", "L2", "l0"}

Names == {"A", "B", "C", "D", "E", "F"}

(* ------------------------------- variables ----------------------------- *)

VARIABLES
  now,           \* wall clock, in ticks since the epoch (UTC)
  tz,            \* UTC offset of the machine modulo one hour, in ticks
  limits,        \* [hourly, daily]: the limits (25 and 100 in the code)
  overlap,       \* TRUE when invocations may interleave at their awaits
  restaurants,   \* restaurants.json
  messagedData,  \* messaged_restaurants.json: set of [date, hour, name]
  fileOk,        \* messaged_restaurants.json is absent or holds complete JSON
  run,           \* per invocation: position and locals of the run
  events,        \* pipeline events emitted so far: set of [topic, location, ...]
  scrape,        \* the ScrapeRestaurants invocation: position and locals
  enrich,        \* the EnrichLeads invocation: position and locals
  table          \* the restaurants table of the database: name -> dm_status

vars == << now, tz, limits, overlap, restaurants, messagedData, fileOk, run,
           events, scrape, enrich, table >>

(* --------------------------- pipeline state ------------------------------ *)

\* Locals of a ScrapeRestaurants invocation that has not started.
IdleScrape ==
  [pc |-> "idle", location |-> "", maxRestaurants |-> 0,
   existingCount |-> 0, restaurantsNeeded |-> 0,
   restaurants |-> << >>,     \* the array searchRestaurants pushes to
   scrollAttempts |-> 0,
   searched |-> FALSE,        \* searchRestaurants was called
   browser |-> "none",        \* none, open, closed
   stored |-> {},             \* names this run passed to addRestaurant
   emitted |-> << >>]         \* restaurants.scraped events emitted by this run

\* Locals of an EnrichLeads invocation that has not started.
IdleEnrich ==
  [pc |-> "idle", location |-> "",
   allRestaurants |-> << >>,  \* the object loadRestaurants returned
   restaurantsToEnrich |-> << >>, i |-> 1, enrichedCount |-> 0,
   lookups |-> 0,             \* calls of findSocialMediaLinks
   emitted |-> << >>]         \* restaurants.enriched events emitted by this run

\* The restaurants table before any upsert.
EmptyTable == {}

(* --------------------------------- clock -------------------------------- *)

\* new Date().toISOString().split('T')[0]: the UTC calendar date.
today(t) == t \div (TicksPerHour * HoursPerDay)

\* new Date().getHours(): the hour of the LOCAL time of day.  The key
\* `${currentHour}h` is one-to-one with the hour and is modelled by it.
currentHour(t, off) == ((t + off) \div TicksPerHour) % HoursPerDay

(* ------------------------- messaged_restaurants.json -------------------- *)

Count(S) == Cardinality(S)

\* getMessageCounts: records under today's date, and of those the ones under
\* the current hour key.
getMessageCounts(data, t, off) ==
  [hourly |-> Count({r \in data : r.date = today(t) /\ r.hour = currentHour(t, off)}),
   daily  |-> Count({r \in data : r.date = today(t)})]

\* saveMessagedRestaurant: data[today][currentHourKey][restaurantName] = true.
saveMessagedRestaurant(data, n, t, off) ==
  data \cup {[date |-> today(t), hour |-> currentHour(t, off), name |-> n]}

\* Mutant: looks in the bucket of the current date and hour only.
isRestaurantMessagedCurrentBucket(data, n) ==
  \E r \in data :
    r.name = n /\ r.date = today(now) /\ r.hour = currentHour(now, tz)

\* isRestaurantMessaged: any day, any hour.
isRestaurantMessaged(data, n) == \E r \in data : r.name = n

(* ------------------------------ pure helpers --------------------------- *)

Min(a, b) == IF a <= b THEN a ELSE b

\* Mutant: every lead counts as having a link.
hasInstagramAny(lead) == TRUE

\* The stored restaurant has a socialMedia property.  An entry the scraper
\* wrote and nobody enriched is the record [name |-> n] alone.
hasSocialMedia(lead) == "instagram" \in DOMAIN lead

\* restaurant.socialMedia?.instagram is truthy.
hasInstagram(lead) == hasSocialMedia(lead) /\ lead.instagram # NoLink

\* extractInstagramUsername of the handler: /instagram\.com\/([A-Za-z0-9_\.]+)/.
extractInstagramUsername(url) ==
  IF url = NoLink THEN NULL
  ELSE IF url.host = "instagram.com" /\ url.user # "" THEN url.user
  ELSE NULL

\* extractInstagramUsername of the CLI: trailing slashes removed, then the
\* patterns anchored at the end of the URL.
cliExtractInstagramUsername(url) ==
  IF url = NoLink THEN NULL
  ELSE IF url.host = "instagram.com" /\ url.user # "" THEN url.user
  ELSE NULL

\* Array.prototype.slice(0, n).
slice(s, n) == SubSeq(s, 1, Min(n, Len(s)))

\* String.prototype.toLowerCase on the modelled inputs.
toLowerCase(s) == IF s = "L1" THEN "l1" ELSE IF s = "L2" THEN "l2" ELSE s

\* allRestaurants[locationKey] || {}, as the sequence Object.entries yields.
locationRestaurants(all, loc) ==
  IF toLowerCase(loc) \in DOMAIN all THEN all[toLowerCase(loc)] ELSE << >>

\* Mutant: unshift instead of push, the selection comes out reversed.
RECURSIVE restaurantsToMessageUnshift(_, _, _, _)
restaurantsToMessageUnshift(entries, data, k, acc) ==
  IF k > Len(entries) THEN acc
  ELSE LET restaurant == entries[k]
           notMessaged == ~isRestaurantMessaged(data, restaurant.name)
       IN  IF hasInstagram(restaurant) /\ notMessaged
             THEN restaurantsToMessageUnshift(entries, data, k + 1,
                    << [name |-> restaurant.name,
                        instagramUrl |-> restaurant.instagram] >> \o acc)
             ELSE restaurantsToMessageUnshift(entries, data, k + 1, acc)

\* Mutant: the history is not consulted.
RECURSIVE restaurantsToMessageAll(_, _, _, _)
restaurantsToMessageAll(entries, data, k, acc) ==
  IF k > Len(entries) THEN acc
  ELSE LET restaurant == entries[k]
       IN  IF hasInstagram(restaurant)
             THEN restaurantsToMessageAll(entries, data, k + 1,
                    Append(acc, [name |-> restaurant.name,
                                 instagramUrl |-> restaurant.instagram]))
             ELSE restaurantsToMessageAll(entries, data, k + 1, acc)

\* The handler's selection loop: push {name, instagramUrl} for every entry
\* with an Instagram link that isRestaurantMessaged does not know.
RECURSIVE restaurantsToMessage(_, _, _, _)
restaurantsToMessage(entries, data, k, acc) ==
  IF k > Len(entries) THEN acc
  ELSE LET restaurant == entries[k]
           notMessaged == ~isRestaurantMessaged(data, restaurant.name)
       IN  IF hasInstagram(restaurant) /\ notMessaged
             THEN restaurantsToMessage(entries, data, k + 1,
                    Append(acc, [name |-> restaurant.name,
                                 instagramUrl |-> restaurant.instagram]))
             ELSE restaurantsToMessage(entries, data, k + 1, acc)

(* ----------------------------- run state -------------------------------- *)

\* Locals of an invocation that has not started.
IdleRun ==
  [kind |-> "none", pc |-> "idle", location |-> "",
   hourly |-> 0, daily |-> 0, batchLimit |-> 0,
   restaurantsToMessage |-> << >>, messagesToSend |-> << >>, i |-> 1,
   successCount |-> 0, hourlyCount |-> 0,
   browser |-> "none",        \* InstagramAutomation.browser: none, open, closed
   emitted |-> << >>,         \* dm.status.updated events emitted by this run
   attempts |-> << >>,        \* candidates passed to sendMessage, in call order
   calls |-> 0,               \* calls of sendMessage for the last of them
   delivered |-> {},          \* names for which sendMessage returned true
   saved |-> {},              \* names whose record this run wrote to the file
   setup |-> "none",          \* outcome of init + login: none, ok, failed
   restaurantData |-> << >>,  \* CLI: restaurants.json as loaded at start-up
   locIdx |-> 1, locationDMCount |-> 0, currentHourlyCount |-> 0,
   retryCount |-> 0, dailyMessageCount |-> 0]

Ended(p) == run[p].pc \in {"idle", "done", "aborted", "crashed"}

\* Invocations are sequential unless `overlap`: the next one starts when the
\* previous one has returned.  They are invocation 1's, until its process is
\* killed; the runs started after that are invocation 2's.
CanStart(p) ==
  /\ Ended(p)
  /\ \/ overlap
     \/ p = 1 /\ run[1].pc # "crashed"
     \/ p = 2 /\ run[1].pc = "crashed"

Set(p, r) == run' = [run EXCEPT ![p] = r]

\* await emit({topic: 'dm.status.updated', data}).
emit(r, data) == [r EXCEPT !.emitted = Append(@, data)]

\* finally { await instagram.close() }: closes the browser if one was launched.
close(r) == [r EXCEPT !.browser = IF @ = "open" THEN "closed" ELSE @]

\* Mutant: the catch block logs the error and emits nothing.
handlerCatchSilent(r, msg) == close([r EXCEPT !.pc = "done", !.setup = "failed"])

\* catch (error) of the handler: the error summary, then the finally block.
handlerCatch(r, msg) ==
  close(emit([r EXCEPT !.pc = "done", !.setup = "failed"],
             [location |-> r.location, error |-> msg, count |-> 0]))

(* --------------------------- SendDM handler ----------------------------- *)

\* Mutant: the browser is launched on entry, before the limits and the leads
\* are looked at; the finally block closes it on the early returns.
HandlerStartBrowserFirst(p, loc) ==
  /\ CanStart(p)
  /\ LET c == getMessageCounts(messagedData, now, tz)
         r0 == [IdleRun EXCEPT !.kind = "handler", !.location = loc,
                               !.hourly = c.hourly, !.daily = c.daily,
                               !.browser = "open"]
         batchLimit == Min(limits.hourly - c.hourly, limits.daily - c.daily)
         rtm == restaurantsToMessage(locationRestaurants(restaurants, loc),
                                     messagedData, 1, << >>)
     IN  IF ~fileOk
           THEN Set(p, handlerCatch(r0, "logger is not defined"))
         ELSE IF c.hourly >= limits.hourly
           THEN Set(p, close(emit([r0 EXCEPT !.pc = "done"],
                  [location |-> loc, error |-> "Hourly DM limit reached", count |-> 0])))
         ELSE IF c.daily >= limits.daily
           THEN Set(p, close(emit([r0 EXCEPT !.pc = "done"],
                  [location |-> loc, error |-> "Daily DM limit reached", count |-> 0])))
         ELSE IF Len(rtm) = 0
           THEN Set(p, close(emit([r0 EXCEPT !.pc = "done", !.batchLimit = batchLimit],
                  [location |-> loc, count |-> 0, message |-> "No restaurants to message"])))
         ELSE Set(p, [r0 EXCEPT !.pc = "init", !.batchLimit = batchLimit,
                                !.restaurantsToMessage = rtm,
                                !.messagesToSend = slice(rtm, batchLimit)])
  /\ UNCHANGED << events, scrape, enrich, table, now, tz, limits, overlap, restaurants, messagedData, fileOk >>

\* handler, from entry to the first await that waits for the outside
\* (send-dm.step.ts 655-746).  When the history file does not parse,
\* getMessageCounts' catch block throws the ReferenceError on `logger` and the
\* handler's catch reports it.
HandlerStart(p, loc) ==
  /\ CanStart(p)
  /\ LET c == getMessageCounts(messagedData, now, tz)
         r0 == [IdleRun EXCEPT !.kind = "handler", !.location = loc,
                               !.hourly = c.hourly, !.daily = c.daily]
         batchLimit == Min(limits.hourly - c.hourly, limits.daily - c.daily)
         rtm == restaurantsToMessage(locationRestaurants(restaurants, loc),
                                     messagedData, 1, << >>)
     IN  IF ~fileOk
           THEN Set(p, handlerCatch(r0, "logger is not defined"))
         ELSE IF c.hourly >= limits.hourly
           THEN Set(p, emit([r0 EXCEPT !.pc = "done"],
                  [location |-> loc, error |-> "Hourly DM limit reached", count |-> 0]))
         ELSE IF c.daily >= limits.daily
           THEN Set(p, emit([r0 EXCEPT !.pc = "done"],
                  [location |-> loc, error |-> "Daily DM limit reached", count |-> 0]))
         ELSE IF Len(rtm) = 0
           THEN Set(p, emit([r0 EXCEPT !.pc = "done", !.batchLimit = batchLimit],
                  [location |-> loc, count |-> 0, message |-> "No restaurants to message"]))
         ELSE Set(p, [r0 EXCEPT !.pc = "init", !.batchLimit = batchLimit,
                                !.restaurantsToMessage = rtm,
                                !.messagesToSend = slice(rtm, batchLimit)])
  /\ UNCHANGED << events, scrape, enrich, table, now, tz, limits, overlap, restaurants, messagedData, fileOk >>

\* await instagram.init(): chromium.launch may fail, and so may what follows
\* it (newContext, newPage) once the browser is up.
HandlerInit(p) ==
  /\ run[p].kind = "handler" /\ run[p].pc = "init"
  /\ \E outcome \in {"ok", "launchFailed", "contextFailed"} :
       CASE outcome = "ok" ->
              Set(p, [run[p] EXCEPT !.browser = "open", !.pc = "login"])
         [] outcome = "launchFailed" ->
              Set(p, handlerCatch(run[p], "Browser initialization failed"))
         [] outcome = "contextFailed" ->
              Set(p, handlerCatch([run[p] EXCEPT !.browser = "open"],
                                  "Browser initialization failed"))
  /\ UNCHANGED << events, scrape, enrich, table, now, tz, limits, overlap, restaurants, messagedData, fileOk >>

\* await instagram.login(logger): throws when navigation fails or times out
\* and when no logged-in indicator is found.
HandlerLogin(p) ==
  /\ run[p].kind = "handler" /\ run[p].pc = "login"
  /\ \E ok \in BOOLEAN :
       IF ok
         THEN Set(p, [run[p] EXCEPT !.pc = "loop", !.i = 1, !.successCount = 0,
                                    !.setup = "ok",
                                    !.hourlyCount = run[p].hourly])
         ELSE Set(p, handlerCatch(run[p], "Login failed"))
  /\ UNCHANGED << events, scrape, enrich, table, now, tz, limits, overlap, restaurants, messagedData, fileOk >>

\* Top of one iteration of `for (const restaurant of messagesToSend)`, up to
\* the call of sendMessage; after the loop, the summary and the finally block.
HandlerLoop(p) ==
  /\ run[p].kind = "handler" /\ run[p].pc = "loop"
  /\ LET r == run[p]
     IN  IF r.i > Len(r.messagesToSend) \/ r.hourlyCount >= limits.hourly
           THEN Set(p, close(emit([r EXCEPT !.pc = "done"],
                  [location |-> r.location, count |-> r.successCount,
                   message |-> "Successfully sent DMs"])))
         ELSE LET restaurant == r.messagesToSend[r.i]
                  username == extractInstagramUsername(restaurant.instagramUrl)
              IN  IF username = NULL
                    THEN Set(p, [r EXCEPT !.i = @ + 1])
                    ELSE Set(p, [r EXCEPT !.pc = "sending", !.calls = 1,
                                          !.attempts = Append(@, restaurant.name)])
  /\ UNCHANGED << events, scrape, enrich, table, now, tz, limits, overlap, restaurants, messagedData, fileOk >>

\* Mutant: a delivery that fails is rethrown and ends the run through the
\* handler's catch block.
HandlerSendFailureThrows(p) ==
  /\ run[p].kind = "handler" /\ run[p].pc = "sending"
  /\ LET r == run[p]
         name == r.messagesToSend[r.i].name
     IN  \E success \in BOOLEAN, saveOk \in BOOLEAN :
           /\ ~success => saveOk
           /\ ~fileOk => ~saveOk
           /\ IF success /\ saveOk
                THEN /\ messagedData' = saveMessagedRestaurant(messagedData, name, now, tz)
                     /\ Set(p, [r EXCEPT !.pc = "loop", !.i = @ + 1,
                                         !.successCount = @ + 1, !.hourlyCount = @ + 1,
                                         !.delivered = @ \cup {name},
                                         !.saved = @ \cup {name}])
                ELSE /\ UNCHANGED messagedData
                     /\ IF success
                          THEN Set(p, [r EXCEPT !.pc = "loop", !.i = @ + 1,
                                                !.delivered = @ \cup {name}])
                          ELSE Set(p, handlerCatch(r, "Failed to send message"))
  /\ UNCHANGED << events, scrape, enrich, table, now, tz, limits, overlap, restaurants, fileOk >>

\* sendMessage returns; on success saveMessagedRestaurant and the two
\* counters.  When the history file cannot be parsed or written, the catch
\* block of saveMessagedRestaurant calls `logger`, which no module-level
\* binding defines: the ReferenceError leaves saveMessagedRestaurant and is
\* caught by the loop's own catch, so neither counter is incremented.  A
\* write that fails is one that fails at open: the file is left as it was.
HandlerSend(p) ==
  /\ run[p].kind = "handler" /\ run[p].pc = "sending"
  /\ LET r == run[p]
         name == r.messagesToSend[r.i].name
     IN  \E success \in BOOLEAN, saveOk \in BOOLEAN :
           /\ ~success => saveOk
           /\ ~fileOk => ~saveOk
           /\ IF success /\ saveOk
                THEN /\ messagedData' = saveMessagedRestaurant(messagedData, name, now, tz)
                     /\ Set(p, [r EXCEPT !.pc = "loop", !.i = @ + 1,
                                         !.successCount = @ + 1, !.hourlyCount = @ + 1,
                                         !.delivered = @ \cup {name},
                                         !.saved = @ \cup {name}])
                ELSE /\ UNCHANGED messagedData
                     /\ Set(p, [r EXCEPT !.pc = "loop", !.i = @ + 1,
                                         !.delivered = IF success THEN @ \cup {name} ELSE @])
  /\ UNCHANGED << events, scrape, enrich, table, now, tz, limits, overlap, restaurants, fileOk >>


(* ------------------------------ send-dm CLI ----------------------------- *)

\* `while (!success && retryCount < 2)`: calls of sendMessage per candidate.
CliMaxAttempts == 2

\* getMessageCounts as the CLI's start-up calls it.  The async main function
\* runs synchronously up to its first await, which is before the module
\* reaches `const messagedRestaurantsPath` on the file's last line: reading
\* the binding throws a ReferenceError inside getMessageCounts' try block (or
\* yields undefined when the build turns const into var, and existsSync is
\* false), and either way the function returns {hourly: 0, daily: 0}.
cliStartupCounts(data, t, off) == [hourly |-> 0, daily |-> 0]

\* main, up to `await instagram.init()` (send-dm.ts 631-659).
CliStart(p) ==
  /\ CanStart(p)
  /\ LET c == cliStartupCounts(messagedData, now, tz)
         r0 == [IdleRun EXCEPT !.kind = "cli", !.restaurantData = restaurants,
                               !.hourly = c.hourly, !.daily = c.daily]
     IN  IF c.hourly >= limits.hourly \/ c.daily >= limits.daily
           THEN Set(p, [r0 EXCEPT !.pc = "done"])              \* process.exit(0)
           ELSE Set(p, [r0 EXCEPT !.pc = "init",
                          !.batchLimit = Min(limits.hourly - c.hourly,
                                             limits.daily - c.daily)])
  /\ UNCHANGED << events, scrape, enrich, table, now, tz, limits, overlap, restaurants, messagedData, fileOk >>

\* await instagram.init(): a rejection is not caught anywhere in main, the
\* process dies with the unhandled rejection.
CliInit(p) ==
  /\ run[p].kind = "cli" /\ run[p].pc = "init"
  /\ \E outcome \in {"ok", "launchFailed", "contextFailed"} :
       CASE outcome = "ok" ->
              Set(p, [run[p] EXCEPT !.browser = "open", !.pc = "login"])
         [] outcome = "launchFailed" ->
              Set(p, [run[p] EXCEPT !.pc = "aborted", !.setup = "failed"])
         [] outcome = "contextFailed" ->
              Set(p, [run[p] EXCEPT !.browser = "open", !.pc = "aborted",
                                    !.setup = "failed"])
  /\ UNCHANGED << events, scrape, enrich, table, now, tz, limits, overlap, restaurants, messagedData, fileOk >>

\* await instagram.login().  A TimeoutError is logged and swallowed
\* ("Continuing anyway..."); when no logged-in indicator is found the method
\* waits ten seconds and returns; any other error is rethrown and ends the
\* process.
CliLogin(p) ==
  /\ run[p].kind = "cli" /\ run[p].pc = "login"
  /\ \E outcome \in {"ok", "timeout", "notVerified", "error"} :
       CASE outcome = "ok" ->
              Set(p, [run[p] EXCEPT !.pc = "loop", !.setup = "ok"])
         [] outcome \in {"timeout", "notVerified"} ->
              Set(p, [run[p] EXCEPT !.pc = "loop", !.setup = "failed"])
         [] outcome = "error" ->
              Set(p, [run[p] EXCEPT !.pc = "aborted", !.setup = "failed"])
  /\ UNCHANGED << events, scrape, enrich, table, now, tz, limits, overlap, restaurants, messagedData, fileOk >>

\* `for (const location of Object.keys(restaurantData))`: entering the next
\* location resets the two per-location counters.
cliNextLocation(r) ==
  [r EXCEPT !.locIdx = @ + 1, !.i = 1, !.locationDMCount = 0,
            !.currentHourlyCount = r.hourly]

\* One iteration of the restaurant loop up to the first call of sendMessage;
\* after the last location, instagram.close().
CliLoop(p) ==
  /\ run[p].kind = "cli" /\ run[p].pc = "loop"
  /\ LET r == run[p]
     IN  IF r.locIdx > Len(LocationOrder)
           THEN Set(p, close([r EXCEPT !.pc = "done"]))
         ELSE
           LET entries == r.restaurantData[LocationOrder[r.locIdx]]
           IN  IF r.i > Len(entries)
                    \/ r.currentHourlyCount >= limits.hourly
                    \/ r.locationDMCount >= r.batchLimit
                 THEN Set(p, cliNextLocation(r))
               ELSE
                 LET restaurant == entries[r.i]
                 IN  IF \/ ~hasInstagram(restaurant)
                        \/ isRestaurantMessaged(messagedData, restaurant.name)
                        \/ cliExtractInstagramUsername(restaurant.instagram) = NULL
                       THEN Set(p, [r EXCEPT !.i = @ + 1])
                       ELSE Set(p, [r EXCEPT !.pc = "sending", !.retryCount = 0,
                                             !.calls = 1,
                                             !.attempts = Append(@, restaurant.name)])
  /\ UNCHANGED << events, scrape, enrich, table, now, tz, limits, overlap, restaurants, messagedData, fileOk >>

\* Mutant: saveMessagedRestaurant is called after the retry loop whether or
\* not a call succeeded.
CliSendSaveAlways(p) ==
  /\ run[p].kind = "cli" /\ run[p].pc = "sending"
  /\ LET r == run[p]
         name == r.restaurantData[LocationOrder[r.locIdx]][r.i].name
     IN  \E delivers \in BOOLEAN, saveOk \in BOOLEAN :
           LET success == delivers /\ r.dailyMessageCount < limits.daily
               r1 == [r EXCEPT !.retryCount = @ + 1,
                               !.dailyMessageCount = IF success THEN @ + 1 ELSE @,
                               !.delivered = IF success THEN @ \cup {name} ELSE @,
                               !.saved = IF success /\ saveOk THEN @ \cup {name} ELSE @]
           IN  /\ ~success => (saveOk /\ ~delivers)
               /\ (success /\ ~fileOk) => ~saveOk
               /\ IF ~success /\ r1.retryCount < CliMaxAttempts
                    THEN /\ Set(p, [r1 EXCEPT !.calls = @ + 1])
                         /\ UNCHANGED messagedData
                    ELSE /\ messagedData' =
                              IF saveOk /\ fileOk
                                THEN saveMessagedRestaurant(messagedData, name, now, tz)
                                ELSE messagedData
                         /\ Set(p, [r1 EXCEPT !.pc = "loop", !.i = @ + 1,
                                      !.locationDMCount = IF success THEN @ + 1 ELSE @,
                                      !.currentHourlyCount = IF success THEN @ + 1 ELSE @])
  /\ UNCHANGED << events, scrape, enrich, table, now, tz, limits, overlap, restaurants, fileOk >>

\* sendMessage returns (false at once when the instance has counted
\* MAX_DAILY_MESSAGES deliveries); retryCount++; then either the next call of
\* the retry loop, or saveMessagedRestaurant and the counters.  A failed read
\* or write is logged by saveMessagedRestaurant and the counters are
\* incremented all the same.
CliSend(p) ==
  /\ run[p].kind = "cli" /\ run[p].pc = "sending"
  /\ LET r == run[p]
         name == r.restaurantData[LocationOrder[r.locIdx]][r.i].name
     IN  \E delivers \in BOOLEAN, saveOk \in BOOLEAN :
           LET success == delivers /\ r.dailyMessageCount < limits.daily
               r1 == [r EXCEPT !.retryCount = @ + 1,
                               !.dailyMessageCount = IF success THEN @ + 1 ELSE @,
                               !.delivered = IF success THEN @ \cup {name} ELSE @,
                               !.saved = IF success /\ saveOk THEN @ \cup {name} ELSE @]
           IN  /\ ~success => (saveOk /\ ~delivers)
               /\ (success /\ ~fileOk) => ~saveOk
               /\ IF ~success /\ r1.retryCount < CliMaxAttempts
                    THEN /\ Set(p, [r1 EXCEPT !.calls = @ + 1])
                         /\ UNCHANGED messagedData
                    ELSE /\ messagedData' =
                              IF success /\ saveOk
                                THEN saveMessagedRestaurant(messagedData, name, now, tz)
                                ELSE messagedData
                         /\ Set(p, [r1 EXCEPT !.pc = "loop", !.i = @ + 1,
                                      !.locationDMCount = IF success THEN @ + 1 ELSE @,
                                      !.currentHourlyCount = IF success THEN @ + 1 ELSE @])
  /\ UNCHANGED << events, scrape, enrich, table, now, tz, limits, overlap, restaurants, fileOk >>

(* ------------------------------ process death -------------------------- *)

\* What is left of a run whose process was killed: its memory is gone, what
\* it delivered and what it recorded stay facts.
crashedRun(r) ==
  [IdleRun EXCEPT !.kind = r.kind, !.pc = "crashed",
                  !.delivered = r.delivered, !.saved = r.saved]

\* The candidate a run at "sending" has passed to sendMessage.
sendingName(r) ==
  IF r.kind = "handler" THEN r.messagesToSend[r.i].name
  ELSE r.restaurantData[LocationOrder[r.locIdx]][r.i].name

\* The process is killed while the run waits at one of its awaits (browser
\* start, login, sendMessage, a delay): no statement of the run is cut short.
Crash(p) ==
  /\ ~Ended(p)
  /\ Set(p, crashedRun(run[p]))
  /\ UNCHANGED << events, scrape, enrich, table, now, tz, limits, overlap, restaurants, messagedData, fileOk >>

\* The process is killed after sendMessage has delivered the message: before
\* saveMessagedRestaurant opens the file, between fs.writeFileSync's open
\* (flag 'w', which truncates) and its write of the new JSON text, or after
\* the write.  The file is rewritten whole, so a cut write loses every record.
CrashInSave(p) ==
  /\ run[p].pc = "sending"
  /\ run[p].kind = "cli" => run[p].dailyMessageCount < limits.daily
  /\ LET r == [run[p] EXCEPT !.delivered = @ \cup {sendingName(run[p])}]
     IN  \E killed \in {"beforeOpen", "beforeWrite", "afterWrite"} :
           CASE killed = "beforeOpen" \/ ~fileOk ->
                  /\ Set(p, crashedRun(r))
                  /\ UNCHANGED << messagedData, fileOk >>
             [] killed = "beforeWrite" /\ fileOk ->
                  /\ Set(p, crashedRun(r))
                  /\ messagedData' = {}
                  /\ fileOk' = FALSE
             [] killed = "afterWrite" /\ fileOk ->
                  /\ Set(p, crashedRun([r EXCEPT !.saved = @ \cup {sendingName(r)}]))
                  /\ messagedData' =
                       saveMessagedRestaurant(messagedData, sendingName(r), now, tz)
                  /\ UNCHANGED fileOk
  /\ UNCHANGED << events, scrape, enrich, table, now, tz, limits, overlap, restaurants >>

(* -------------------------------- clock --------------------------------- *)

\* Time passes: between invocations, during an await, during a delay.
Tick ==
  /\ now < MaxTime
  /\ \E t \in (now + 1)..MaxTime : now' = t
  /\ UNCHANGED << events, scrape, enrich, table, tz, limits, overlap, restaurants,
               messagedData, fileOk, run >>

(* ------------------------------ specification --------------------------- *)

InitCommon ==
  /\ now = 0
  /\ tz \in TzOffsets
  /\ limits \in Limits
  /\ restaurants = RestaurantData
  /\ messagedData = {}
  /\ fileOk = TRUE
  /\ run = [p \in Procs |-> IdleRun]
  /\ events = {}
  /\ scrape = IdleScrape
  /\ enrich = IdleEnrich
  /\ table = EmptyTable

Init == InitCommon /\ overlap = FALSE

Next ==
  \/ Tick
  \/ \E p \in Procs, loc \in LocationInputs : HandlerStart(p, loc)
  \/ \E p \in Procs : HandlerInit(p)
  \/ \E p \in Procs : HandlerLogin(p)
  \/ \E p \in Procs : HandlerLoop(p)
  \/ \E p \in Procs : HandlerSend(p)
  \/ \E p \in Procs : CliStart(p)
  \/ \E p \in Procs : CliInit(p)
  \/ \E p \in Procs : CliLogin(p)
  \/ \E p \in Procs : CliLoop(p)
  \/ \E p \in Procs : CliSend(p)

Spec == Init /\ [][Next]_vars

NextHandler ==
  \/ Tick
  \/ \E p \in Procs, loc \in LocationInputs : HandlerStart(p, loc)
  \/ \E p \in Procs : HandlerInit(p)
  \/ \E p \in Procs : HandlerLogin(p)
  \/ \E p \in Procs : HandlerLoop(p)
  \/ \E p \in Procs : HandlerSend(p)

\* Sequential invocations of the SendDM handler alone.
SpecHandler == Init /\ [][NextHandler]_vars

\* Sequential invocations whose process may be killed: whole-hour zone, one
\* pair of limits, and a clock that stands still (whether a run finds a
\* record does not depend on the bucket the record lies in).
InitCrash == Init /\ tz = 0 /\ limits = [hourly |-> 2, daily |-> 10]

NextCrash ==
  \/ \E p \in Procs, loc \in LocationInputs : HandlerStart(p, loc)
  \/ \E p \in Procs : HandlerInit(p)
  \/ \E p \in Procs : HandlerLogin(p)
  \/ \E p \in Procs : HandlerLoop(p)
  \/ \E p \in Procs : HandlerSend(p)
  \/ \E p \in Procs : CliStart(p)
  \/ \E p \in Procs : CliInit(p)
  \/ \E p \in Procs : CliLogin(p)
  \/ \E p \in Procs : CliLoop(p)
  \/ \E p \in Procs : CliSend(p)
  \/ \E p \in Procs : Crash(p)
  \/ \E p \in Procs : CrashInSave(p)

SpecCrash == InitCrash /\ [][NextCrash]_vars

\* Invocations of the SendDM handler that the event runtime starts while
\* another one is still waiting at an await: the steps of the two interleave
\* at their awaits, each step running to its next await without interruption.
\* Whole-hour zone, one pair of limits.
InitOverlap ==
  /\ now = MaxTime - 1
  /\ tz = 0
  /\ limits = [hourly |-> 2, daily |-> 10]
  /\ overlap = TRUE
  /\ restaurants = RestaurantData
  /\ messagedData = {}
  /\ fileOk = TRUE
  /\ run = [p \in Procs |-> IdleRun]
  /\ events = {}
  /\ scrape = IdleScrape
  /\ enrich = IdleEnrich
  /\ table = EmptyTable

SpecOverlap == InitOverlap /\ [][NextHandler]_vars

(* ======================== properties of the campaign ==================== *)

\* Some send record names n, in whatever bucket.
HasRecord(n) == \E r \in messagedData : r.name = n

Recorded == {r.name : r \in messagedData}

Last(s) == s[Len(s)]

\* The step calls sendMessage for invocation p (a first call or a retry).
CallsSendMessage(p) ==
  /\ run'[p].pc = "sending"
  /\ run[p].pc # "sending" \/ run'[p].calls # run[p].calls

\* The stored lead called n.
LeadOf(n) ==
  CHOOSE l \in UNION {{restaurants[loc][k] : k \in 1..Len(restaurants[loc])} :
                        loc \in DOMAIN restaurants} : l.name = n

SeqNames(s) == [k \in 1..Len(s) |-> s[k].name]

(* ------------------------------------------------------------------------ *)
(* C1.  Idempotence across runs: once a send record for restaurant R has    *)
(* been written, R keeps its record, isRestaurantMessaged(R) is true in     *)
(* every later state, and no later step of any run (handler or CLI, at any  *)
(* later hour or day) calls sendMessage for R.                              *)
(* ------------------------------------------------------------------------ *)
C1_Idempotence ==
  [][\A n \in Names :
       HasRecord(n) =>
         /\ HasRecord(n)'
         /\ isRestaurantMessaged(messagedData, n)
         /\ isRestaurantMessaged(messagedData', n)
         /\ \A p \in Procs :
              CallsSendMessage(p) => Last(run'[p].attempts) # n]_vars

\* A was recorded on an earlier day by an earlier run; the current run has
\* passed over it and is calling sendMessage for a later lead of the location.
C1_Witness ==
  \E p \in Procs :
    /\ run[p].pc = "sending"
    /\ toLowerCase(run[p].location) = "l1" \/ run[p].kind = "cli"
    /\ \E r \in messagedData : r.name = "A" /\ r.date < today(now)
    /\ run[p].attempts # << >>
    /\ \A k \in 1..Len(run[p].attempts) : run[p].attempts[k] # "A"

(* ------------------------------------------------------------------------ *)
(* C2.  Quota invariant of the handler: over sequential handler             *)
(* invocations, whatever the delivery outcomes and however the clock        *)
(* advances, no (date, hour) bucket of the history holds more records than  *)
(* the hourly limit and no date more than the daily limit.                  *)
(* ------------------------------------------------------------------------ *)
C2_HandlerQuota ==
  \A r \in messagedData :
    /\ Count({q \in messagedData : q.date = r.date /\ q.hour = r.hour}) <= limits.hourly
    /\ Count({q \in messagedData : q.date = r.date}) <= limits.daily

(* ------------------------------------------------------------------------ *)
(* C3.  Quota invariant of the CLI: in one CLI run the messages sent over   *)
(* all locations number at most the batch limit computed at start-up, and   *)
(* after every send of the run the hourly and daily counts are within the   *)
(* limits.                                                                  *)
(* ------------------------------------------------------------------------ *)
C3_CliQuota ==
  \A p \in Procs :
    run[p].kind = "cli" =>
      /\ Count(run[p].delivered) <= run[p].batchLimit
      /\ run[p].delivered # {} =>
           /\ getMessageCounts(messagedData, now, tz).hourly <= limits.hourly
           /\ getMessageCounts(messagedData, now, tz).daily <= limits.daily

(* ------------------------------------------------------------------------ *)
(* C4.  Retry bound: when a run has moved on from a candidate to which no   *)
(* call of sendMessage succeeded, it made exactly three calls for that      *)
(* candidate (the first attempt and two retries), and wrote no record.      *)
(* ------------------------------------------------------------------------ *)

\* "Automatically retries failed messages up to 3 times."
DocumentedAttempts == 3

C4_RetryBound ==
  \A p \in Procs :
    (/\ run[p].pc \in {"loop", "done"}
     /\ run[p].attempts # << >>
     /\ Last(run[p].attempts) \notin run[p].delivered)
      => /\ run[p].calls = DocumentedAttempts
         /\ ~HasRecord(Last(run[p].attempts))

(* ------------------------------------------------------------------------ *)
(* C5.  Scenario: hourly limit 2, daily limit 10, empty history, handler    *)
(* run for location l1 whose candidates are A, C, D in that order, every    *)
(* delivery succeeds and is recorded.  The run calls sendMessage for A and  *)
(* then C and for nobody else, reports count = 2, and D is left without a   *)
(* record, so that the selection of a later run still holds D.              *)
(* ------------------------------------------------------------------------ *)
ScenarioLimits == [hourly |-> 2, daily |-> 10]

Range(s) == {s[k] : k \in 1..Len(s)}

C5_Scenario ==
  \A p \in Procs :
    (/\ run[p].kind = "handler" /\ run[p].pc = "done"
     /\ limits = ScenarioLimits
     /\ toLowerCase(run[p].location) = "l1"
     /\ run[p].setup = "ok"
     /\ Range(run[p].attempts) = run[p].delivered
     /\ Recorded = run[p].delivered)
      => /\ run[p].attempts = << "A", "C" >>
         /\ run[p].emitted = << [location |-> run[p].location, count |-> 2,
                                 message |-> "Successfully sent DMs"] >>
         /\ ~HasRecord("D")
         /\ "D" \in Range(SeqNames(restaurantsToMessage(
                      locationRestaurants(restaurants, "l1"), messagedData, 1, << >>)))

C5_Witness ==
  \E p \in Procs :
    /\ run[p].kind = "handler" /\ run[p].pc = "done"
    /\ limits = ScenarioLimits
    /\ run[p].attempts = << "A", "C" >>
    /\ Recorded = {"A", "C"}
    /\ run[p].delivered = {"A", "C"}
    /\ run[p].emitted[1].count = 2

(* ------------------------------------------------------------------------ *)
(* C6.  Order preservation: the list the handler selects is the location's  *)
(* leads in stored order with the leads lacking an Instagram link and the   *)
(* leads that have a send record removed, and in every run (handler or CLI) *)
(* sendMessage is called for the candidates in stored order.                *)
(* ------------------------------------------------------------------------ *)

\* Indices of the entries that have a link and no send record.
EligibleAt(entries) ==
  {k \in 1..Len(entries) :
     entries[k].instagram # NoLink /\ ~HasRecord(entries[k].name)}

\* `list` is `entries` restricted to EligibleAt, order kept.
FilteredInOrder(list, entries) ==
  /\ Len(list) = Count(EligibleAt(entries))
  /\ \A i \in 1..Len(list) :
       \E k \in EligibleAt(entries) :
         /\ Count({j \in EligibleAt(entries) : j < k}) = i - 1
         /\ list[i] = [name |-> entries[k].name, instagramUrl |-> entries[k].instagram]

\* All stored leads, location after location as the CLI walks them.
AllEntries == restaurants[LocationOrder[1]] \o restaurants[LocationOrder[2]]

PosOf(n) == CHOOSE k \in 1..Len(AllEntries) : AllEntries[k].name = n

C6_OrderPreserved ==
  \A p \in Procs :
    /\ (run[p].kind = "handler" /\ run[p].pc = "init")
         => FilteredInOrder(run[p].restaurantsToMessage,
                            locationRestaurants(restaurants, run[p].location))
    /\ \A i, j \in 1..Len(run[p].attempts) :
         i < j => PosOf(run[p].attempts[i]) < PosOf(run[p].attempts[j])
    /\ run[p].kind = "handler" =>
         \A i \in 1..Len(run[p].attempts) :
           \E k \in 1..Len(run[p].messagesToSend) :
             /\ run[p].messagesToSend[k].name = run[p].attempts[i]
             /\ run[p].messagesToSend[k] = run[p].restaurantsToMessage[k]
             /\ k >= i

\* Leads A, B, C, D with C in the history (and B without a link): the handler
\* selected A, D and has called sendMessage for A and then D.
C6_Witness ==
  \E p \in Procs :
    /\ run[p].kind = "handler"
    /\ HasRecord("C") /\ "C" \notin run[p].delivered
    /\ SeqNames(run[p].restaurantsToMessage) = << "A", "D" >>
    /\ run[p].attempts = << "A", "D" >>

(* ------------------------------------------------------------------------ *)
(* C7.  A lead without an Instagram link is never passed to sendMessage     *)
(* and never gets a send record, and it takes no place in the batch: the    *)
(* batch the handler sends to is the one it would select from the same      *)
(* leads with the link-less ones taken out.                                 *)
(* ------------------------------------------------------------------------ *)

WithLinkOnly(entries) == SelectSeq(entries, LAMBDA e : e.instagram # NoLink)

C7_NoLinkNoQuota ==
  /\ \A r \in messagedData : LeadOf(r.name).instagram # NoLink
  /\ \A p \in Procs :
       /\ \A i \in 1..Len(run[p].attempts) :
            LeadOf(run[p].attempts[i]).instagram # NoLink
       /\ (run[p].kind = "handler" /\ run[p].pc = "init") =>
            run[p].messagesToSend =
              slice(restaurantsToMessage(
                      WithLinkOnly(locationRestaurants(restaurants, run[p].location)),
                      messagedData, 1, << >>),
                    run[p].batchLimit)

\* Capacity for two: the batch is A and C, the link-less B between them took
\* no place, and sendMessage has been called for both.
C7_Witness ==
  \E p \in Procs :
    /\ run[p].kind = "handler"
    /\ run[p].batchLimit = 2
    /\ SeqNames(run[p].messagesToSend) = << "A", "C" >>
    /\ run[p].attempts = << "A", "C" >>

(* ------------------------------------------------------------------------ *)
(* C8.  Every handler invocation that has returned has emitted one          *)
(* dm.status.updated event whose data is {count, message} or                *)
(* {count: 0, error} (beside the location).                                 *)
(* ------------------------------------------------------------------------ *)

IsMessageSummary(e) == DOMAIN e = {"location", "count", "message"}

IsErrorSummary(e) == DOMAIN e = {"location", "count", "error"} /\ e.count = 0

EndedByQuota(r) ==
  \/ r.hourly >= limits.hourly
  \/ r.daily >= limits.daily
  \/ r.setup = "ok" /\ r.hourlyCount >= limits.hourly

C9_QuotaIsSuccess ==
  \A p \in Procs :
    (run[p].kind = "handler" /\ run[p].pc = "done" /\ EndedByQuota(run[p])) =>
      \A k \in 1..Len(run[p].emitted) : IsMessageSummary(run[p].emitted[k])

(* ------------------------------------------------------------------------ *)
(* C10.  Setup errors are fatal: a run whose browser could not be started   *)
(* or whose login did not succeed calls sendMessage for nobody, and the     *)
(* failure reaches the caller (error summary of the handler, aborted        *)
(* process of the CLI).                                                     *)
(* ------------------------------------------------------------------------ *)
C10_SetupFatal ==
  \A p \in Procs :
    run[p].setup = "failed" =>
      /\ run[p].attempts = << >>
      /\ run[p].kind = "handler" =>
           run[p].pc = "done" /\ IsErrorSummary(run[p].emitted[1])
      /\ run[p].kind = "cli" => run[p].pc = "aborted"

(* ------------------------------------------------------------------------ *)
(* C11.  Persistence errors are fatal: when sendMessage has succeeded for a *)
(* candidate and the write of its send record failed, the run calls         *)
(* sendMessage for no later candidate.                                      *)
(* ------------------------------------------------------------------------ *)

\* Delivered by run p without the record having been written.
SaveFailed(p) == run[p].delivered \ run[p].saved

C11_PersistenceFatal ==
  \A p \in Procs :
    \A n \in SaveFailed(p) : Last(run[p].attempts) = n

(* ------------------------------------------------------------------------ *)
(* C12.  The browser is released on every exit path: a run of the handler   *)
(* or of the CLI that has ended, by returning or by an error that left its  *)
(* main function, does not leave a launched browser open.                   *)
(* ------------------------------------------------------------------------ *)
C12_BrowserReleased ==
  \A p \in Procs :
    run[p].pc \in {"done", "aborted"} => run[p].browser # "open"

(* ------------------------------------------------------------------------ *)
(* C13.  Bucket rollover: when the records of the current date number the   *)
(* hourly limit and all lie under the hour before the current one, the      *)
(* capacity check of a run that starts (handler or CLI) reads hourly = 0    *)
(* and a daily count that still includes those records, and sizes the batch *)
(* from the full hourly allowance and the reduced daily one.                *)
(* ------------------------------------------------------------------------ *)

\* The step is the start of invocation p.
StartsRun(p) == Ended(p) /\ run'[p] # run[p]

\* The records of today fill the previous hour's bucket and no other.
RolloverCase ==
  /\ fileOk
  /\ currentHour(now, tz) >= 1
  /\ Count({r \in messagedData : r.date = today(now)}) = limits.hourly
  /\ \A r \in messagedData :
       r.date = today(now) => r.hour = currentHour(now, tz) - 1

C13_BucketRollover ==
  [][\A p \in Procs :
       (StartsRun(p) /\ RolloverCase) =>
         /\ run'[p].hourly = 0
         /\ run'[p].daily = limits.hourly
         /\ run'[p].batchLimit = Min(limits.hourly, limits.daily - limits.hourly)]_vars

(* ------------------------------------------------------------------------ *)
(* C14.  Crash durability: when the process of a handler run is killed, at  *)
(* whatever point, every restaurant whose record the run had written before *)
(* has its record in the history file, isRestaurantMessaged is true of it,  *)
(* and the runs started afterwards do not deliver to it.                    *)
(* ------------------------------------------------------------------------ *)
C14_CrashDurable ==
  (run[1].pc = "crashed" /\ run[1].kind = "handler") =>
    \A n \in run[1].saved :
      /\ HasRecord(n)
      /\ isRestaurantMessaged(messagedData, n)
      /\ n \notin run[2].delivered

(* ------------------------------------------------------------------------ *)
(* C15.  Exactly-once delivery across crashes: when the process of a run    *)
(* (handler or CLI) is killed at an arbitrary point, between a successful   *)
(* sendMessage and the write of its record included, no restaurant the run  *)
(* delivered to is delivered to again by a run started afterwards.          *)
(* ------------------------------------------------------------------------ *)
C15_ExactlyOnce ==
  run[1].pc = "crashed" => run[1].delivered \cap run[2].delivered = {}

(* ------------------------------------------------------------------------ *)
(* C16.  Quota is taken per attempt and never given back: in a run, the     *)
(* candidates passed to sendMessage, delivered or not, number at most the   *)
(* capacity found at the start, and each of them has used one unit of the   *)
(* count the run's later limit checks read.                                 *)
(* ------------------------------------------------------------------------ *)
C16_QuotaPerAttempt ==
  \A p \in Procs :
    run[p].pc \in {"loop", "done"} =>
      /\ Len(run[p].attempts) <= run[p].batchLimit
      /\ run[p].kind = "handler" =>
           run[p].hourlyCount = run[p].hourly + Len(run[p].attempts)

(* ------------------------------------------------------------------------ *)
(* C17.  A candidate whose Instagram URL yields no username is skipped      *)
(* without using quota: sendMessage is never called for it, it gets no      *)
(* record, and it takes no place from the candidates behind it, so a        *)
(* handler run that reached its loop has attempted as many candidates as    *)
(* the capacity allows among those whose URL parses.                        *)
(* ------------------------------------------------------------------------ *)

Parseable(c) == extractInstagramUsername(c.instagramUrl) # NULL

C17_UnparseableNoQuota ==
  /\ \A r \in messagedData :
       extractInstagramUsername(LeadOf(r.name).instagram) # NULL
  /\ \A p \in Procs :
       /\ \A i \in 1..Len(run[p].attempts) :
            extractInstagramUsername(LeadOf(run[p].attempts[i]).instagram) # NULL
       /\ (run[p].kind = "handler" /\ run[p].pc = "done" /\ run[p].setup = "ok") =>
            Len(run[p].attempts) =
              Min(run[p].batchLimit,
                  Len(SelectSeq(run[p].restaurantsToMessage, Parseable)))

(* ------------------------------------------------------------------------ *)
(* C18.  A failed recipient does not abort the batch.  When the calls of    *)
(* sendMessage for a candidate have all failed, the run writes no record    *)
(* for it and moves to the next candidate of its loop; the candidate stays  *)
(* eligible, so the selection of a run started then holds it again; and a   *)
(* handler run that had a failure has, when it returns, attempted every     *)
(* candidate of its batch that follows the failed one and has a username.   *)
(* ------------------------------------------------------------------------ *)

\* Run p leaves the candidate it was sending to without a delivery.
GivesUp(p) ==
  /\ run[p].pc = "sending" /\ run'[p].pc # "sending"
  /\ sendingName(run[p]) \notin run'[p].delivered

\* Candidates of run r that were attempted and not delivered.
Failed(r) ==
  {n \in Range(r.attempts) : n \notin r.delivered /\ (r.pc = "sending" => n # Last(r.attempts))}

SelectedAgain(n, loc, data) ==
  n \in Range(SeqNames(restaurantsToMessage(
                locationRestaurants(restaurants, loc), data, 1, << >>)))

FailureKeepsBatch(r) ==
  (r.kind = "handler" /\ r.pc = "done" /\ r.setup = "ok") =>
    \A j, k \in 1..Len(r.messagesToSend) :
      (j < k /\ r.messagesToSend[j].name \in Failed(r) /\ Parseable(r.messagesToSend[k]))
        => r.messagesToSend[k].name \in Range(r.attempts)

C18_FailureContinues ==
  [][\A p \in Procs :
       /\ GivesUp(p) =>
            /\ run'[p].pc = "loop"
            /\ run'[p].i = run[p].i + 1
            /\ messagedData' = messagedData
            /\ ~isRestaurantMessaged(messagedData', sendingName(run[p]))
            /\ hasInstagram(LeadOf(sendingName(run[p])))
            /\ run[p].kind = "handler" =>
                 SelectedAgain(sendingName(run[p]), run[p].location, messagedData')
       /\ FailureKeepsBatch(run'[p])
       /\ \A n \in Failed(run'[p]) : ~HasRecord(n)']_vars

\* sendMessage failed for A; the handler went on to call it for C and
\* returned; A has no record.
C18_Witness ==
  \E p \in Procs :
    /\ run[p].kind = "handler" /\ run[p].pc = "done" /\ run[p].setup = "ok"
    /\ run[p].attempts = << "A", "C" >>
    /\ "A" \notin run[p].delivered /\ "C" \in run[p].delivered
    /\ ~HasRecord("A")

(* ------------------------------------------------------------------------ *)
(* C19.  Records follow deliveries: a send record is written only for the   *)
(* candidate whose call of sendMessage has just returned success, in the    *)
(* step in which it returned; a candidate whose calls all failed, which was *)
(* skipped or which was never passed to sendMessage gets no record.         *)
(* ------------------------------------------------------------------------ *)
C19_RecordOnlyAfterSuccess ==
  [][/\ \A n \in Names :
          (HasRecord(n)' /\ ~HasRecord(n)) =>
            \E p \in Procs :
              /\ run[p].pc = "sending"
              /\ sendingName(run[p]) = n
              /\ Last(run[p].attempts) = n
              /\ n \in run'[p].delivered
     /\ \A p \in Procs :
          /\ run'[p].saved \subseteq run'[p].delivered
          /\ \A n \in run'[p].saved : HasRecord(n)']_vars

\* A was delivered to and recorded; the calls for C failed and C has no
\* record; D was never attempted and has none.
C19_Witness ==
  \E p \in Procs :
    /\ run[p].pc = "loop"
    /\ run[p].attempts = << "A", "C" >>
    /\ run[p].saved = {"A"} /\ run[p].delivered = {"A"}
    /\ Recorded = {"A"}

(* ------------------------------------------------------------------------ *)
(* C20.  Once a limit check of the send loop finds the quota used up, the   *)
(* loop stops: the run goes on to no further candidate, and a run that got  *)
(* as far as its loop ends only on such a check or at the end of its        *)
(* candidates.                                                              *)
(* ------------------------------------------------------------------------ *)

\* The check at the top of the iteration run r is about to make fails.
FindsQuotaExhausted(r) ==
  /\ r.pc = "loop"
  /\ \/ r.kind = "handler" /\ r.i <= Len(r.messagesToSend)
                            /\ r.hourlyCount >= limits.hourly
     \/ /\ r.kind = "cli" /\ r.locIdx <= Len(LocationOrder)
        /\ r.i <= Len(r.restaurantData[LocationOrder[r.locIdx]])
        /\ \/ r.currentHourlyCount >= limits.hourly
           \/ r.locationDMCount >= r.batchLimit

\* No candidate is left for run r to go on to.
LoopOver(r) ==
  \/ r.pc = "done"
  \/ r.kind = "cli" /\ r.pc = "loop" /\ r.locIdx > Len(LocationOrder)

EndedByQuotaOrExhaustion(r) ==
  (r.pc = "done" /\ r.setup = "ok") =>
    \/ r.kind = "handler" /\ \/ r.i > Len(r.messagesToSend)
                              \/ r.hourlyCount >= limits.hourly
    \/ r.kind = "cli" /\ r.locIdx > Len(LocationOrder)

C20_QuotaStopsLoop ==
  [][\A p \in Procs :
       /\ (FindsQuotaExhausted(run[p]) /\ run'[p] # run[p]) => LoopOver(run'[p])
       /\ EndedByQuotaOrExhaustion(run'[p])]_vars

(* ------------------------------------------------------------------------ *)
(* C21.  No duplicate under racing runs: when two handler invocations       *)
(* interleave at their awaits and every delivery is recorded, no restaurant *)
(* is delivered to by both, and no restaurant has more than one send record *)
(* over all (date, hour) buckets.                                           *)
(* ------------------------------------------------------------------------ *)
C21_NoDuplicateRacing ==
  /\ (\A p \in Procs : run[p].saved = run[p].delivered) =>
       run[1].delivered \cap run[2].delivered = {}
  /\ \A n \in Names : Count({r \in messagedData : r.name = n}) <= 1

(* ------------------------------------------------------------------------ *)
(* C22.  Quota under interleaving: when handler invocations interleave at   *)
(* their awaits (whole-hour zone), the records of one (date, hour) bucket   *)
(* never number more than the hourly limit and those of one date never more *)
(* than the daily limit.                                                    *)
(* ------------------------------------------------------------------------ *)

Dates == 0..today(MaxTime)

Hours == 0..(HoursPerDay - 1)

C22_QuotaInterleaved ==
  \A d \in Dates :
    /\ Count({r \in messagedData : r.date = d}) <= limits.daily
    /\ \A h \in Hours :
         Count({r \in messagedData : r.date = d /\ r.hour = h}) <= limits.hourly

(* ------------------------------------------------------------------------ *)
(* C23.  The caller can tell whether sends occurred: the count of the       *)
(* summary a handler invocation emits equals the number of restaurants it   *)
(* delivered to and the number of records it wrote, and an error summary    *)
(* is emitted only by an invocation that delivered nothing.                 *)
(* ------------------------------------------------------------------------ *)
C23_CountIsDeliveries ==
  \A p \in Procs :
    (run[p].kind = "handler" /\ run[p].pc = "done") =>
      \A k \in 1..Len(run[p].emitted) :
        /\ run[p].emitted[k].count = Count(run[p].delivered)
        /\ run[p].emitted[k].count = Count(run[p].saved)
        /\ IsErrorSummary(run[p].emitted[k]) => run[p].delivered = {}

(* ------------------------------------------------------------------------ *)
(* C24.  No Instagram account is contacted twice: over all runs and         *)
(* locations, two different leads that were delivered to or have a send     *)
(* record never resolve to the same Instagram username.                     *)
(* ------------------------------------------------------------------------ *)

UsernameOf(n) == extractInstagramUsername(LeadOf(n).instagram)

C24_AccountOnce ==
  \A n, m \in Recorded \cup UNION {run[p].delivered : p \in Procs} :
    n # m => UsernameOf(n) # UsernameOf(m)

(* ------------------------------------------------------------------------ *)
(* C25.  Early exits have no side effects: a handler invocation that        *)
(* returns because the hourly or the daily limit is reached at its start,   *)
(* or because no lead is left to message, has launched no browser and       *)
(* called sendMessage for nobody, and its step left the history file as it  *)
(* was.                                                                     *)
(* ------------------------------------------------------------------------ *)

\* Run r returned before `await instagram.init()`.
EarlyExit(r) == r.kind = "handler" /\ r.pc = "done" /\ r.setup = "none"

C25_EarlyExitNoEffect ==
  [][\A p \in Procs :
       EarlyExit(run'[p]) =>
         /\ run'[p].browser = "none"
         /\ run'[p].attempts = << >>
         /\ run'[p].delivered = {} /\ run'[p].saved = {}
         /\ \/ run'[p].hourly >= limits.hourly
            \/ run'[p].daily >= limits.daily
            \/ run'[p].emitted[1].message = "No restaurants to message"
         /\ run'[p] # run[p] => (messagedData' = messagedData /\ fileOk' = fileOk)]_vars

\* The hourly limit was reached when the invocation started: it returned at
\* once, and the records are those it found.
C25_Witness ==
  \E p \in Procs :
    /\ EarlyExit(run[p])
    /\ run[p].hourly >= limits.hourly
    /\ Count(messagedData) = run[p].daily
    /\ run[p].browser = "none"

(* ------------------------------ migrateData ------------------------------ *)

\* The YYYY-MM-DD string a date is stored under in the history file.
dateKey(d) == ToString(d)

\* messagedData[name] of migrateData: the property called `name` of the parsed
\* history object, whose own properties are the date keys.
historyProperty(data, n) == n \in {dateKey(r.date) : r \in data}

\* dm_status: messagedData[name] ? 'dm_sent' : 'pending_dm'.
dmStatus(data, n) ==
  IF historyProperty(data, n) THEN "dm_sent" ELSE "pending_dm"

\* upsertRestaurant: insert, or replace the row with the same name and location.
upsertRestaurant(t, row) ==
  {x \in t : ~(x.name = row.name /\ x.location = row.location)} \cup {row}

\* The two nested Object.entries loops of migrateData, flattened: the
\* (location, name) pairs in iteration order, from location number k on.
RECURSIVE restaurantRows(_, _)
restaurantRows(all, k) ==
  IF k > Len(LocationOrder) THEN << >>
  ELSE LET loc == LocationOrder[k]
       IN  [j \in 1..Len(all[loc]) |-> [location |-> loc, name |-> all[loc][j].name]]
             \o restaurantRows(all, k + 1)

\* The table after the first n rows were upserted.
RECURSIVE upsertRows(_, _, _, _)
upsertRows(t, rows, data, n) ==
  IF n = 0 THEN t
  ELSE upsertRestaurant(upsertRows(t, rows, data, n - 1),
         [name |-> rows[n].name, location |-> rows[n].location,
          dm_status |-> dmStatus(data, rows[n].name)])

\* migrateData: the three files are read and parsed (a missing or torn file
\* throws, the catch block exits), then every restaurant is upserted; an
\* upsert that fails ends the migration at that row.
Migrate ==
  /\ \E filesOk \in BOOLEAN :
       LET rows == restaurantRows(restaurants, 1)
       IN  IF ~filesOk \/ ~fileOk
             THEN UNCHANGED table
             ELSE \E n \in 0..Len(rows) :
                    table' = upsertRows(table, rows, messagedData, n)
  /\ UNCHANGED << events, scrape, enrich, now, tz, limits, overlap, restaurants,
                  messagedData, fileOk, run >>

InitMigrate == Init /\ tz = 0 /\ limits = [hourly |-> 2, daily |-> 10]

NextMigrate ==
  \/ \E p \in Procs, loc \in LocationInputs : HandlerStart(p, loc)
  \/ \E p \in Procs : HandlerInit(p)
  \/ \E p \in Procs : HandlerLogin(p)
  \/ \E p \in Procs : HandlerLoop(p)
  \/ \E p \in Procs : HandlerSend(p)
  \/ Migrate

SpecMigrate == InitMigrate /\ [][NextMigrate]_vars

(* ------------------------------------------------------------------------ *)
(* C28.  Migration preserves the send history: migrateData upserts a        *)
(* restaurant with dm_status 'dm_sent' if and only if the history file      *)
(* (date -> hour -> name -> true) holds a record for that restaurant, and   *)
(* with 'pending_dm' otherwise.                                             *)
(* ------------------------------------------------------------------------ *)
C28_MigrationKeepsHistory ==
  [][table' # table =>
       \A row \in table' \ table :
         /\ row.dm_status \in {"dm_sent", "pending_dm"}
         /\ (row.dm_status = "dm_sent") <=> isRestaurantMessaged(messagedData, row.name)]_vars

(* ------------------------------------------------------------------------ *)
(* The lead pipeline: TriggerScrape -> ScrapeRestaurants -> EnrichLeads ->   *)
(* SendDM, chained by events.                                                *)
(* ------------------------------------------------------------------------ *)

\* MAX_SCROLL_ATTEMPTS of searchRestaurants.
MAX_SCROLL_ATTEMPTS == 15

\* The maxRestaurants a request carries (default of the schema: 30; scaled).
MaxRestaurants == 2

\* Names of the listings the map page shows for a search.
Listings == {"A", "G"}

\* The most result elements one scroll adds to the feed.
FeedBatch == 2

\* restaurants.json before the pipeline is triggered: one enriched lead.
PipelineData == [l \in {"l1"} |-> << Lead("A", ProfileUrl("u1")) >>]

\* The location a scrape is requested for.
PipelineLocations == {"l2"}

\* An entry as addRestaurant stores it: the scraped fields, no socialMedia.
Scraped(n) == [name |-> n]

\* Object.keys(getRestaurantsByLocation(location)).length.
existingCount(all, loc) == Len(locationRestaurants(all, loc))

\* saveRestaurants: the whole file is replaced by the object passed.  (The
\* local file system is taken as reliable: the branches that log and swallow
\* a read or write error of restaurants.json are not taken.)
saveRestaurants(all) == all

\* allRestaurants[locationKey][name] = value on the loaded object: a new
\* location key and a new name go to the end, a stored name keeps its place.
setEntry(all, loc, value) ==
  LET key == toLowerCase(loc)
      old == IF key \in DOMAIN all THEN all[key] ELSE << >>
      at  == {k \in 1..Len(old) : old[k].name = value.name}
      new == IF at = {} THEN Append(old, value)
             ELSE [k \in 1..Len(old) |-> IF k \in at THEN value ELSE old[k]]
  IN  [l \in DOMAIN all \cup {key} |-> IF l = key THEN new ELSE all[l]]

\* addRestaurant: load the file, set the entry (without socialMedia), save.
addRestaurant(file, n, loc) ==
  saveRestaurants(setEntry(file, loc, Scraped(n)))

\* for (const restaurant of restaurants) addRestaurant(restaurant, location).
RECURSIVE addRestaurants(_, _, _, _)
addRestaurants(file, names, loc, k) ==
  IF k > Len(names) THEN file
  ELSE addRestaurants(addRestaurant(file, names[k], loc), names, loc, k + 1)

\* Mutant: the inner loop pushes every new listing, full or not.
RECURSIVE pushFoundAll(_, _, _, _)
pushFoundAll(collected, found, maxN, k) ==
  IF k > Len(found) THEN collected
  ELSE pushFoundAll(Append(collected, found[k]), found, maxN, k + 1)

\* The inner for loop of searchRestaurants over the new feed elements: a
\* restaurant is pushed while fewer than maxRestaurants were collected.
RECURSIVE pushFound(_, _, _, _)
pushFound(collected, found, maxN, k) ==
  IF k > Len(found) \/ Len(collected) >= maxN THEN collected
  ELSE pushFound(Append(collected, found[k]), found, maxN, k + 1)

\* No handler of the pipeline is in the middle of a run.
ScrapeEnded == scrape.pc \in {"idle", "done", "rejected"}
EnrichEnded == enrich.pc \in {"idle", "done"}
StageMayStart ==
  \/ overlap
  \/ ScrapeEnded /\ EnrichEnded /\ \A p \in Procs : Ended(p)

Event(t, loc) == [topic |-> t, location |-> loc]

(* ------------------------------ TriggerScrape ---------------------------- *)

\* A request body without a location.
InvalidBody == [location |-> NULL, maxRestaurants |-> 0]

\* The request bodies the endpoint is called with.
Bodies ==
  {InvalidBody} \cup
  [location : PipelineLocations, maxRestaurants : {MaxRestaurants}]

\* POST /api/trigger-scrape: schema.parse(req.body) throws on a body without
\* a location and nothing is emitted; otherwise the parsed body goes out as
\* restaurants.scrape.requested.
TriggerScrape(body) ==
  /\ IF body.location = NULL
       THEN UNCHANGED events
       ELSE events' = events \cup
              {[topic |-> "restaurants.scrape.requested",
                location |-> body.location,
                maxRestaurants |-> body.maxRestaurants]}
  /\ UNCHANGED << scrape, enrich, table, now, tz, limits, overlap, restaurants,
                  messagedData, fileOk, run >>

(* ---------------------------- ScrapeRestaurants -------------------------- *)

scrapeEmit(s, e) == [s EXCEPT !.emitted = Append(@, e)]

\* Entry of the handler up to the call of searchRestaurants: the browser is
\* launched outside the try block; inside it the context and the page are
\* made and the stored restaurants of the location are counted.
ScrapeStart ==
  /\ ScrapeEnded
  /\ StageMayStart
  /\ \E e \in events, launch \in {"ok", "fails"}, page \in {"ok", "fails"} :
       /\ e.topic = "restaurants.scrape.requested"
       /\ LET s0 == [IdleScrape EXCEPT !.location = e.location,
                                       !.maxRestaurants = e.maxRestaurants]
              n  == existingCount(restaurants, e.location)
              s1 == [s0 EXCEPT !.browser = "open", !.existingCount = n,
                               !.restaurantsNeeded = e.maxRestaurants - n]
          IN  IF launch = "fails"
                THEN /\ scrape' = [s0 EXCEPT !.pc = "rejected"]
                     /\ UNCHANGED events
              ELSE IF page = "fails"
                THEN /\ scrape' = scrapeEmit(
                          [s0 EXCEPT !.pc = "done", !.browser = "closed"],
                          [location |-> e.location, error |-> "newPage failed",
                           count |-> 0])
                     /\ events' = events \cup {Event("restaurants.scraped", e.location)}
              ELSE IF s1.restaurantsNeeded <= 0
                THEN /\ scrape' = scrapeEmit(
                          [s1 EXCEPT !.pc = "done", !.browser = "closed"],
                          [location |-> e.location, count |-> n,
                           message |-> "No new restaurants needed"])
                     /\ events' = events \cup {Event("restaurants.scraped", e.location)}
              ELSE /\ scrape' = [s1 EXCEPT !.pc = "searching", !.searched = TRUE]
                   /\ UNCHANGED events
  /\ UNCHANGED << enrich, table, now, tz, limits, overlap, restaurants,
                  messagedData, fileOk, run >>

\* One pass of the while loop of searchRestaurants: the feed shows `found`
\* new listings, they are pushed while room is left, and the page is scrolled
\* when the collection is still short.  An error of the page ends the search
\* with what was collected.
ScrapeScroll ==
  /\ scrape.pc = "searching"
  /\ \E n \in 0..FeedBatch, pageError \in BOOLEAN :
       \E found \in [1..n -> Listings] :
         LET looping == /\ Len(scrape.restaurants) < scrape.restaurantsNeeded
                        /\ scrape.scrollAttempts < MAX_SCROLL_ATTEMPTS
             pushed  == pushFound(scrape.restaurants, found,
                                  scrape.restaurantsNeeded, 1)
         IN  IF ~looping \/ pageError
               THEN scrape' = [scrape EXCEPT !.pc = "collected"]
               ELSE scrape' = [scrape EXCEPT
                      !.restaurants = pushed,
                      !.scrollAttempts =
                         IF Len(pushed) < scrape.restaurantsNeeded THEN @ + 1 ELSE @]
  /\ UNCHANGED << events, enrich, table, now, tz, limits, overlap, restaurants,
                  messagedData, fileOk, run >>

\* After searchRestaurants: every collected restaurant is stored, the
\* summary is emitted and the finally block closes the browser.  The locals
\* of the search end with the invocation.
ScrapeSave ==
  /\ scrape.pc = "collected"
  /\ restaurants' = addRestaurants(restaurants, scrape.restaurants,
                                   scrape.location, 1)
  /\ scrape' = scrapeEmit(
       [scrape EXCEPT !.pc = "done", !.browser = "closed",
                      !.restaurants = << >>, !.scrollAttempts = 0,
                      !.stored = {scrape.restaurants[k] :
                                    k \in 1..Len(scrape.restaurants)}],
       [location |-> scrape.location, count |-> Len(scrape.restaurants),
        message |-> "Successfully scraped"])
  /\ events' = events \cup {Event("restaurants.scraped", scrape.location)}
  /\ UNCHANGED << enrich, table, now, tz, limits, overlap, messagedData, fileOk, run >>

(* ------------------------------- EnrichLeads ----------------------------- *)

\* Mutant: a restaurant is enriched again while it has no Instagram link.
needsEnrichmentNoLink(restaurant) == ~hasInstagram(restaurant)

\* !restaurant.socialMedia: the entry has no socialMedia property.
needsEnrichment(restaurant) == ~hasSocialMedia(restaurant)

\* The names of the entries of a location that need enrichment, in
\* Object.entries order.
RECURSIVE restaurantsToEnrich(_, _, _)
restaurantsToEnrich(entries, k, acc) ==
  IF k > Len(entries) THEN acc
  ELSE restaurantsToEnrich(entries, k + 1,
         IF needsEnrichment(entries[k]) THEN Append(acc, entries[k].name) ELSE acc)

\* What findSocialMediaLinks can return for a restaurant: the empty object
\* (no API key, a failed request, nothing found) or an Instagram link.
SocialMedia == {NoLink, ProfileUrl("u1")}

enrichEmit(s, e) == [s EXCEPT !.emitted = Append(@, e)]

\* Entry of the handler: the file is loaded once and the entries of the
\* location without socialMedia are selected; with none, the summary is
\* emitted at once.
EnrichStart ==
  /\ EnrichEnded
  /\ StageMayStart
  /\ \E e \in events :
       /\ e.topic = "restaurants.scraped"
       /\ LET todo == restaurantsToEnrich(
                        locationRestaurants(restaurants, e.location), 1, << >>)
              s0   == [IdleEnrich EXCEPT !.location = e.location]
          IN  IF Len(todo) = 0
                THEN /\ enrich' = enrichEmit([s0 EXCEPT !.pc = "done"],
                          [location |-> e.location, count |-> 0,
                           message |-> "No restaurants to enrich"])
                     /\ events' = events \cup {Event("restaurants.enriched", e.location)}
                ELSE /\ enrich' = [s0 EXCEPT !.pc = "lookup",
                                             !.allRestaurants = restaurants,
                                             !.restaurantsToEnrich = todo]
                     /\ UNCHANGED events
  /\ UNCHANGED << scrape, table, now, tz, limits, overlap, restaurants,
                  messagedData, fileOk, run >>

\* One pass of the enrichment loop: the lookup is awaited and its result is
\* stored in the object loaded at the start.
EnrichLookup ==
  /\ enrich.pc = "lookup"
  /\ enrich.i <= Len(enrich.restaurantsToEnrich)
  /\ \E socialMedia \in SocialMedia :
       enrich' = [enrich EXCEPT
         !.allRestaurants = setEntry(@, enrich.location,
                              Lead(enrich.restaurantsToEnrich[enrich.i], socialMedia)),
         !.i = @ + 1, !.enrichedCount = @ + 1, !.lookups = @ + 1]
  /\ UNCHANGED << events, scrape, table, now, tz, limits, overlap, restaurants,
                  messagedData, fileOk, run >>

\* After the loop: the loaded object is written back as the whole file and
\* the summary is emitted.
EnrichSave ==
  /\ enrich.pc = "lookup"
  /\ enrich.i > Len(enrich.restaurantsToEnrich)
  /\ restaurants' = saveRestaurants(enrich.allRestaurants)
  /\ enrich' = enrichEmit([enrich EXCEPT !.pc = "done", !.allRestaurants = << >>,
                                         !.restaurantsToEnrich = << >>, !.i = 1],
       [location |-> enrich.location, count |-> enrich.enrichedCount,
        message |-> "Successfully enriched"])
  /\ events' = events \cup {Event("restaurants.enriched", enrich.location)}
  /\ UNCHANGED << scrape, table, now, tz, limits, overlap, messagedData, fileOk, run >>

(* --------------------------------- SendDM -------------------------------- *)

\* The SendDM handler is invoked with the location of a restaurants.enriched
\* event.
DeliverEnriched ==
  /\ StageMayStart
  /\ \E e \in events :
       /\ e.topic = "restaurants.enriched"
       /\ HandlerStart(1, e.location)

(* ----------------------------- specifications ---------------------------- *)

InitPipeline ==
  /\ now = 0
  /\ tz = 0
  /\ limits = [hourly |-> 2, daily |-> 10]
  /\ overlap = FALSE
  /\ restaurants = PipelineData
  /\ messagedData = {}
  /\ fileOk = TRUE
  /\ run = [p \in Procs |-> IdleRun]
  /\ events = {}
  /\ scrape = IdleScrape
  /\ enrich = IdleEnrich
  /\ table = EmptyTable

NextPipeline ==
  \/ \E body \in Bodies : TriggerScrape(body)
  \/ ScrapeStart
  \/ ScrapeScroll
  \/ ScrapeSave
  \/ EnrichStart
  \/ EnrichLookup
  \/ EnrichSave
  \/ DeliverEnriched
  \/ HandlerInit(1)
  \/ HandlerLogin(1)
  \/ HandlerLoop(1)
  \/ HandlerSend(1)

\* The pipeline with one handler running at a time.
SpecPipeline == InitPipeline /\ [][NextPipeline]_vars

\* restaurants.json after a scrape of l1 stored G: G awaits enrichment.
InterleavedData ==
  [l \in {"l1"} |-> << Lead("A", ProfileUrl("u1")), Scraped("G") >>]

\* A scrape of l2 is requested while the restaurants.scraped event of l1 is
\* being delivered.
InitInterleaved ==
  /\ now = 0
  /\ tz = 0
  /\ limits = [hourly |-> 2, daily |-> 10]
  /\ overlap = TRUE
  /\ restaurants = InterleavedData
  /\ messagedData = {}
  /\ fileOk = TRUE
  /\ run = [p \in Procs |-> IdleRun]
  /\ events = {[topic |-> "restaurants.scrape.requested", location |-> "l2",
                maxRestaurants |-> MaxRestaurants],
               Event("restaurants.scraped", "l1")}
  /\ scrape = IdleScrape
  /\ enrich = IdleEnrich
  /\ table = EmptyTable

NextInterleaved ==
  \/ \E body \in Bodies : TriggerScrape(body)
  \/ ScrapeStart
  \/ ScrapeScroll
  \/ ScrapeSave
  \/ EnrichStart
  \/ EnrichLookup
  \/ EnrichSave

\* A ScrapeRestaurants and an EnrichLeads handler interleaving at their awaits.
SpecInterleaved == InitInterleaved /\ [][NextInterleaved]_vars

(* ------------------------------------------------------------------------ *)
(* C26.  Pipeline liveness: given that every handler terminates and every   *)
(* emitted event is delivered, an accepted scrape request leads to a        *)
(* restaurants.scraped event, then a restaurants.enriched event, then a     *)
(* dm.status.updated event for the location, also when a stage ends with    *)
(* an error.  Under those two assumptions the chain can stop only at a      *)
(* handler that ends without emitting, so the property is checked as:       *)
(* every invocation that has ended has emitted its stage's event for its    *)
(* location.                                                                *)
(* ------------------------------------------------------------------------ *)
StageEmitted(emitted, loc) ==
  \E k \in 1..Len(emitted) : emitted[k].location = loc

C26_PipelineLiveness ==
  /\ scrape.pc \in {"done", "rejected"} => StageEmitted(scrape.emitted, scrape.location)
  /\ enrich.pc = "done" => StageEmitted(enrich.emitted, enrich.location)
  /\ (run[1].kind = "handler" /\ Ended(1)) =>
       StageEmitted(run[1].emitted, run[1].location)

(* ------------------------------------------------------------------------ *)
(* C27.  No lost update on restaurants.json: when a ScrapeRestaurants       *)
(* handler for one location interleaves with an EnrichLeads handler for     *)
(* another, every restaurant that addRestaurant wrote is still in the file  *)
(* after the enrichment handler has saved its result.                       *)
(* ------------------------------------------------------------------------ *)
StoredIn(all, loc, n) ==
  \E k \in 1..Len(locationRestaurants(all, loc)) :
    locationRestaurants(all, loc)[k].name = n

EnrichSaves == enrich.pc = "lookup" /\ enrich'.pc = "done"

C27_NoLostUpdate ==
  [][(EnrichSaves /\ scrape.pc = "done"
        /\ toLowerCase(enrich.location) # toLowerCase(scrape.location)) =>
       \A n \in scrape.stored :
         StoredIn(restaurants, scrape.location, n) =>
           StoredIn(restaurants', scrape.location, n)]_vars

(* ------------------------------------------------------------------------ *)
(* C29.  Enrichment is idempotent: when an EnrichLeads run for a location   *)
(* completes, every restaurant of the location has a socialMedia property   *)
(* (empty when the lookup found nothing or failed); a following run on that *)
(* file performs no lookup, leaves restaurants.json as it is and emits      *)
(* count = 0.                                                               *)
(* ------------------------------------------------------------------------ *)
AllEnriched(all, loc) ==
  \A k \in 1..Len(locationRestaurants(all, loc)) :
    hasSocialMedia(locationRestaurants(all, loc)[k])

EnrichCompletes == enrich' # enrich /\ enrich'.pc = "done"

EnrichStartsAgain ==
  /\ enrich.pc = "done" /\ enrich' # enrich
  /\ enrich'.location = enrich.location
  /\ AllEnriched(restaurants, enrich.location)

ScrapeLooping ==
  /\ scrape.pc = "searching" /\ scrape'.pc = "searching"
  /\ scrape' # scrape

ScrapeBounds(s, all) ==
  /\ s.scrollAttempts <= MAX_SCROLL_ATTEMPTS
  /\ s.searched =>
       /\ s.restaurantsNeeded = s.maxRestaurants - s.existingCount
       /\ s.restaurantsNeeded > 0
       /\ Len(s.restaurants) <= s.restaurantsNeeded
  /\ (s.pc # "idle" /\ s.existingCount >= s.maxRestaurants) =>
       ~s.searched /\ s.restaurants = << >> /\ s.stored = {}
  /\ s.pc = "done" => existingCount(all, s.location) <= s.maxRestaurants

C30_ScrapeBound ==
  [][/\ ScrapeBounds(scrape', restaurants')
     /\ ScrapeLooping =>
          scrape'.scrollAttempts + Len(scrape'.restaurants)
            > scrape.scrollAttempts + Len(scrape.restaurants)]_vars

C30_Witness ==
  /\ scrape.pc = "collected"
  /\ scrape.scrollAttempts = MAX_SCROLL_ATTEMPTS
  /\ 0 < Len(scrape.restaurants)
  /\ Len(scrape.restaurants) < scrape.restaurantsNeeded

====
